---- MODULE Spec2Model ----
(***************************************************************************)
(* MetalX agent: the connection loop of agent_main (registration, socket   *)
(* session, frame dispatch) and the restart loop of main, modelled from    *)
(* src/agent/src/main.rs.                                                  *)
(*                                                                         *)
(* JSON values are records tagged by t: "num" (n), "str" (s), "bool" (b),  *)
(* "null", "obj" (m, a record from keys to JSON values).  A wire text is a *)
(* JSON value or [t |-> "garbage"], a text that is no JSON at all.         *)
(***************************************************************************)
EXTENDS Integers, Sequences, FiniteSets, TLC

VARIABLES
    config,       \* config::Config handed to agent_main (main.rs:330)
    pc,           \* position of the process in main / agent_main
    api_base_url, \* agent_main's api_base_url (main.rs:196)
    ws_url,       \* the socket URL of the current attempt (main.rs:249)
    txAlive,      \* the send half of the open socket can still be written
    sent,         \* frames written to the send half tx in this attempt
    nread,        \* number of items rx.next() yielded in this attempt
    last,         \* the last item rx.next() yielded in this attempt
    reqs,         \* ids of the Envelopes received in this attempt, in order
    pings,        \* payloads of the pings received in this attempt, in order
    lastReg,      \* what the registration exchange of this attempt returned,
                  \* until the response is used up (line 251)
    lastOutcome,  \* how the last connect attempt ended
    delay,        \* time units slept since lastOutcome was set
    task          \* a run of Event::from and handle_message on its own

vars == <<config, pc, api_base_url, ws_url, txAlive, sent, nread, last, reqs,
          pings, lastReg, lastOutcome, delay, task>>

\* what is recorded of the frames read
hist == <<nread, last, reqs, pings>>

-----------------------------------------------------------------------------
(* Bounds of the model *)

MaxFrames == 4      \* items read from one session
MaxId == 2          \* request ids 1..MaxId
MaxPayload == 2     \* ping payloads 1..MaxPayload

(* Program constants *)

NoUrlDelay == 15        \* main.rs:246
RegisterErrDelay == 15  \* main.rs:303
RestartDelay == 60      \* main.rs:336
I32Max == 2147483647
I32Min == -I32Max - 1
\* UnknownEventCode with a fault: the cast saturates
UnknownEventCodeSaturated == I32Max
UnknownEventCode == I32Min  \* main.rs:184, 0x80000000u32 as i32

-----------------------------------------------------------------------------
(* Option<T> *)

None == [some |-> FALSE]
Some(v) == [some |-> TRUE, v |-> v]

(* JSON values *)

JNum(n) == [t |-> "num", n |-> n]
JStr(s) == [t |-> "str", s |-> s]
JBool(b) == [t |-> "bool", b |-> b]
JNull == [t |-> "null"]
JObj(m) == [t |-> "obj", m |-> m]
Garbage == [t |-> "garbage"]
EmptyMap == [k \in {} |-> JNull]

\* json_str: the string under key, None when the key is absent or no string
json_str(map, key) ==
    IF key \in DOMAIN map /\ map[key].t = "str" THEN Some(map[key].s) ELSE None

\* json_bool: the boolean under key, None when the key is absent or no boolean
json_bool(map, key) ==
    IF key \in DOMAIN map /\ map[key].t = "bool" THEN Some(map[key].b) ELSE None

\* serde's Deserialize of EventMessage: id u64, code i32 and event String are
\* required, data is an optional map (absent or null gives None)
FromStr(text) ==
    IF text.t # "obj" THEN None
    ELSE LET o == text.m IN
         IF /\ {"id", "code", "event"} \subseteq DOMAIN o
            /\ o["id"].t = "num" /\ o["id"].n >= 0
            /\ o["code"].t = "num"
            /\ o["code"].n >= I32Min /\ o["code"].n <= I32Max
            /\ o["event"].t = "str"
            /\ ("data" \in DOMAIN o => o["data"].t \in {"obj", "null"})
         THEN Some([id |-> o["id"].n, code |-> o["code"].n,
                    event |-> o["event"].s,
                    data |-> IF "data" \in DOMAIN o /\ o["data"].t = "obj"
                             THEN Some(o["data"].m) ELSE None])
         ELSE None

\* serde's Serialize of EventMessage, as json!(response).to_string() writes it
ToJson(msg) ==
    JObj([id |-> JNum(msg.id), code |-> JNum(msg.code),
          event |-> JStr(msg.event),
          data |-> IF msg.data.some THEN JObj(msg.data.v) ELSE JNull])

-----------------------------------------------------------------------------
(* impl From<EventMessage> for Event *)

\* EventFrom with a fault: a transfer needs its url only
EventFromUrlOnly(msg) ==
    IF msg.event \in {"download", "upload"}
    THEN IF msg.data.some /\ json_str(msg.data.v, "url").some
         THEN [variant |-> IF msg.event = "download" THEN "Download" ELSE "Upload",
               id |-> msg.id,
               url |-> json_str(msg.data.v, "url").v,
               path |-> IF json_str(msg.data.v, "path").some
                        THEN json_str(msg.data.v, "path").v ELSE ""]
         ELSE [variant |-> "Raw", id |-> msg.id, msg |-> msg]
    ELSE IF msg.event = "execute"
    THEN IF msg.data.some /\ json_str(msg.data.v, "cmd").some
         THEN [variant |-> "Execute", id |-> msg.id,
               cmd |-> json_str(msg.data.v, "cmd").v]
         ELSE [variant |-> "Raw", id |-> msg.id, msg |-> msg]
    ELSE [variant |-> "Raw", id |-> msg.id, msg |-> msg]

EventFrom(msg) ==
    IF msg.event \in {"download", "upload"}
    THEN IF /\ msg.data.some
            /\ json_str(msg.data.v, "url").some
            /\ json_str(msg.data.v, "path").some
         THEN [variant |-> IF msg.event = "download" THEN "Download" ELSE "Upload",
               id |-> msg.id,
               url |-> json_str(msg.data.v, "url").v,
               path |-> json_str(msg.data.v, "path").v]
         ELSE [variant |-> "Raw", id |-> msg.id, msg |-> msg]
    ELSE IF msg.event = "execute"
    THEN IF msg.data.some /\ json_str(msg.data.v, "cmd").some
         THEN [variant |-> "Execute", id |-> msg.id,
               cmd |-> json_str(msg.data.v, "cmd").v]
         ELSE [variant |-> "Raw", id |-> msg.id, msg |-> msg]
    ELSE [variant |-> "Raw", id |-> msg.id, msg |-> msg]

-----------------------------------------------------------------------------
(* handle_message: the reply Envelope the handler builds for an Event, given  *)
(* the result of the primitive it calls (download_file, upload_file,        *)
(* execute_shell): res.ok is is_ok(), res.code the exit code of Ok(code).   *)

\* handle_message with a fault: the transfer codes are swapped
handle_messageSwapped(event, res) ==
    IF event.variant \in {"Download", "Upload"}
    THEN [id |-> event.id, event |-> "task_completed",
          code |-> IF res.ok THEN 1 ELSE 0, data |-> None]
    ELSE IF event.variant = "Execute"
    THEN [id |-> event.id, event |-> "task_completed",
          code |-> IF res.ok THEN res.code ELSE -1, data |-> None]
    ELSE [id |-> event.msg.id, event |-> "task_completed",
          code |-> UnknownEventCode,
          data |-> Some([error |-> JStr("Unknown event type")])]

handle_message(event, res) ==
    IF event.variant \in {"Download", "Upload"}
    THEN [id |-> event.id, event |-> "task_completed",
          code |-> IF res.ok THEN 0 ELSE 1, data |-> None]
    ELSE IF event.variant = "Execute"
    THEN [id |-> event.id, event |-> "task_completed",
          code |-> IF res.ok THEN res.code ELSE -1, data |-> None]
    ELSE [id |-> event.msg.id, event |-> "task_completed",
          code |-> UnknownEventCode,
          data |-> Some([error |-> JStr("Unknown event type")])]

\* main.rs:263-266: `_ = handle_message(..).inspect_err(..);` builds the
\* future and drops it without .await, so its body never runs: no primitive
\* is called, nothing is written to tx, and no error comes back.
Dispatch(event) == <<>>

\* main.rs:263: of the requests read, those whose handler runs beside the
\* read loop.  The future is neither awaited nor handed to a task of the
\* runtime, so there are none.
Spawned(requests) == {}

-----------------------------------------------------------------------------
(* agent_main, lines 196-202 and 219-243 *)

Scheme(cfg, plain, tls) == IF cfg.https THEN tls ELSE plain

ApiBaseUrl(cfg) ==
    Scheme(cfg, "http", "https") \o "://" \o cfg.addr \o ":"
        \o ToString(cfg.port) \o "/" \o cfg.api_base_path

\* WsUrl with a fault: the default path leaves out api_base_path
WsUrlBareDefault(client_conf, cfg) ==
    IF client_conf.data.some
    THEN LET data == client_conf.data.v IN
         IF json_str(data, "ws").some
         THEN IF json_bool(data, "redirct").some /\ json_bool(data, "redirct").v
              THEN Some(json_str(data, "ws").v)
              ELSE Some(Scheme(cfg, "ws", "wss") \o "://" \o cfg.addr \o ":"
                        \o ToString(cfg.port) \o "/" \o json_str(data, "ws").v)
         ELSE Some(Scheme(cfg, "ws", "wss") \o "://" \o cfg.addr \o ":"
                   \o ToString(cfg.port) \o "/ws")
    ELSE None

WsUrl(client_conf, cfg) ==
    IF client_conf.data.some
    THEN LET data == client_conf.data.v IN
         IF json_str(data, "ws").some
         THEN IF json_bool(data, "redirct").some /\ json_bool(data, "redirct").v
              THEN Some(json_str(data, "ws").v)
              ELSE Some(Scheme(cfg, "ws", "wss") \o "://" \o cfg.addr \o ":"
                        \o ToString(cfg.port) \o "/" \o json_str(data, "ws").v)
         ELSE Some(Scheme(cfg, "ws", "wss") \o "://" \o cfg.addr \o ":"
                   \o ToString(cfg.port) \o "/" \o cfg.api_base_path \o "/ws")
    ELSE None

-----------------------------------------------------------------------------
(* Inputs *)

Configs ==
    { [addr |-> "controller", port |-> 1091, https |-> FALSE,
       api_base_path |-> "api/v1"],
      [addr |-> "10.0.0.7", port |-> 8443, https |-> TRUE,
       api_base_path |-> "metalx/api"] }

Ids == 1 .. MaxId
Payloads == 1 .. MaxPayload

\* data maps of registration responses
RegData ==
    { EmptyMap,
      [ws |-> JStr("sockpath")],
      [ws |-> JNum(7)],
      [ws |-> JStr("wss://relay:443/agent"), redirect |-> JBool(TRUE)],
      [ws |-> JStr("sockpath"), redirect |-> JBool(FALSE)],
      [ws |-> JStr("wss://relay:443/agent"), redirct |-> JBool(TRUE)],
      [ws |-> JStr("sockpath"), redirct |-> JStr("yes")] }

RegEnvelopes ==
    { [id |-> 0, code |-> 0, event |-> "registered", data |-> d] :
        d \in {None} \cup {Some(m) : m \in RegData} }

\* bodies of registration responses: envelopes as the controller writes them,
\* an envelope without its data member, and bodies that are no envelope
RegBodies ==
    {ToJson(e) : e \in RegEnvelopes}
    \cup { JObj([id |-> JNum(0), code |-> JNum(0), event |-> JStr("registered")]),
           JObj([error |-> JStr("not found")]),
           Garbage }

\* what client.post(..).send().await returns: Err, or Ok(response); reqwest
\* returns Ok for every status the server answers with
RegResults ==
    { [ok |-> FALSE] }
    \cup { [ok |-> TRUE, status |-> st, body |-> b] :
            st \in {200, 500}, b \in RegBodies }

\* data maps of task envelopes
TaskData ==
    { [url |-> JStr("http://files/a"), path |-> JStr("/tmp/a")],
      [url |-> JStr("http://files/a")],
      [url |-> JNum(1), path |-> JStr("/tmp/a")],
      [url |-> JStr("http://files/a"), path |-> JBool(FALSE)],
      [cmd |-> JStr("true")],
      [cmd |-> JBool(TRUE)] }

TaskEnvelopes ==
    { [id |-> i, code |-> 0, event |-> ev, data |-> d] :
        i \in Ids, ev \in {"download", "upload", "execute", "reboot"},
        d \in {None} \cup {Some(m) : m \in TaskData} }

\* payloads of Message::Text frames
Texts ==
    {ToJson(e) : e \in TaskEnvelopes}
    \cup { Garbage,
           JObj([event |-> JStr("execute"), data |-> JObj([cmd |-> JStr("true")])]),
           JObj([id |-> JStr("1"), code |-> JNum(0), event |-> JStr("execute")]),
           JStr("execute") }

-----------------------------------------------------------------------------
(* State *)

\* an item rx.next() yielded.  kind is "request" (a text
\* frame that parsed as an Envelope; id and variant are those of its Event),
\* "text_err" (a text frame that did not parse), "binary", "ping" (payload),
\* "pong", "close", "frame", "err" (Some(Err(..))) or "end" (None)
Item(kind, id, variant, payload) ==
    [kind |-> kind, id |-> id, variant |-> variant, payload |-> payload]

Plain(kind) == Item(kind, 0, "", 0)
NoItem == Plain("none")

Pong(payload) == [type |-> "pong", payload |-> payload]
Text(json) == [type |-> "text", text |-> json]

NoTask == [pc |-> "none"]

Init ==
    /\ config \in Configs
    /\ pc = "main"
    /\ api_base_url = ""
    /\ ws_url = None
    /\ txAlive = FALSE
    /\ sent = <<>>
    /\ nread = 0
    /\ last = NoItem
    /\ reqs = <<>>
    /\ pings = <<>>
    /\ lastReg = None
    /\ lastOutcome = "none"
    /\ delay = 0
    /\ task = NoTask

\* an attempt ends with outcome o at position p; the socket, if any, is gone
Leave(p, o) ==
    /\ pc' = p
    /\ lastOutcome' = o
    /\ delay' = 0
    /\ txAlive' = FALSE

-----------------------------------------------------------------------------
(* main, lines 332-338, and agent_main up to its loop, lines 196-204 *)

AgentMain ==
    /\ pc = "main"
    /\ pc' = "loop"
    /\ api_base_url' = ApiBaseUrl(config)
    /\ UNCHANGED <<task, config, ws_url, txAlive, sent, hist, lastReg, lastOutcome, delay>>

\* Restart with a fault: main sleeps the short interval
RestartAfterShortSleep ==
    /\ pc = "failed"
    /\ pc' = "main"
    /\ delay' = delay + RegisterErrDelay
    /\ UNCHANGED <<task, config, api_base_url, ws_url, txAlive, sent, hist, lastReg,
                   lastOutcome>>

\* agent_main returned Err: main logs it and sleeps 60 s before the next call
Restart ==
    /\ pc = "failed"
    /\ pc' = "main"
    /\ delay' = delay + RestartDelay
    /\ UNCHANGED <<task, config, api_base_url, ws_url, txAlive, sent, hist, lastReg,
                   lastOutcome>>

-----------------------------------------------------------------------------
(* agent_main: registration, lines 205-248 and 298-304 *)

\* where an answered registration request leads (lines 215-248): the
\* position, the outcome and the socket URL
Registered(res, cfg) ==
    LET client_conf == FromStr(res.body) IN
    IF ~client_conf.some
    THEN [pc |-> "failed", outcome |-> "body_err", url |-> None]
    ELSE IF ~WsUrl(client_conf.v, cfg).some
    THEN [pc |-> "sleep_nourl", outcome |-> "no_url", url |-> None]
    ELSE [pc |-> "connect", outcome |-> "registered",
          url |-> WsUrl(client_conf.v, cfg)]

\* RegisterNext with a fault: the send error is returned with `?`
RegisterNextErrReturned(res, cfg) ==
    IF ~res.ok
    THEN [pc |-> "failed", outcome |-> "register_err", url |-> None]
    ELSE Registered(res, cfg)

\* where the registration exchange leads (match res, lines 214-305)
RegisterNext(res, cfg) ==
    IF ~res.ok
    THEN [pc |-> "sleep_err", outcome |-> "register_err", url |-> None]
    ELSE Registered(res, cfg)

\* utils::get_machine_uuid()? fails while the request is built: nothing is sent
RegisterIdentityErr ==
    /\ pc = "loop"
    /\ Leave("failed", "identity_err")
    /\ lastReg' = None
    /\ ws_url' = None
    /\ sent' = <<>>
    /\ nread' = 0
    /\ last' = NoItem
    /\ reqs' = <<>>
    /\ pings' = <<>>
    /\ UNCHANGED <<task, config, api_base_url>>

Register(res) ==
    /\ pc = "loop"
    /\ LET n == RegisterNext(res, config) IN
       /\ Leave(n.pc, n.outcome)
       /\ ws_url' = n.url
    /\ lastReg' = Some(res)
    /\ sent' = <<>>
    /\ nread' = 0
    /\ last' = NoItem
    /\ reqs' = <<>>
    /\ pings' = <<>>
    /\ UNCHANGED <<task, config, api_base_url>>

\* line 246
SleepNoUrl ==
    /\ pc = "sleep_nourl"
    /\ pc' = "loop"
    /\ delay' = delay + NoUrlDelay
    /\ UNCHANGED <<task, config, api_base_url, ws_url, txAlive, sent, hist, lastReg,
                   lastOutcome>>

\* line 303
SleepRegisterErr ==
    /\ pc = "sleep_err"
    /\ pc' = "loop"
    /\ delay' = delay + RegisterErrDelay
    /\ UNCHANGED <<task, config, api_base_url, ws_url, txAlive, sent, hist, lastReg,
                   lastOutcome>>

\* Connect with a fault: a failed socket open is retried like a failed
\* registration request
ConnectErrRetriesShort(ok) ==
    /\ pc = "connect"
    /\ IF ok
       THEN /\ pc' = "session"
            /\ txAlive' = TRUE
            /\ UNCHANGED <<lastOutcome, delay>>
       ELSE Leave("sleep_err", "connect_err")
    /\ ws_url' = None
    /\ lastReg' = None
    /\ UNCHANGED <<task, config, api_base_url, sent, hist>>

\* lines 249-253: connect_async(ws_url).await? and ws.split()
Connect(ok) ==
    /\ pc = "connect"
    /\ IF ok
       THEN /\ pc' = "session"
            /\ txAlive' = TRUE
            /\ UNCHANGED <<lastOutcome, delay>>
       ELSE Leave("failed", "connect_err")
    /\ ws_url' = None
    /\ lastReg' = None
    /\ UNCHANGED <<task, config, api_base_url, sent, hist>>

-----------------------------------------------------------------------------
(* agent_main: the message loop, lines 254-296.  One action per value of   *)
(* rx.next().await; the controller and the network choose it, in any order *)
(* (the transport library may allow fewer orders, never more).             *)

CanRead == pc = "session" /\ nread < MaxFrames

\* the item is taken from rx
Read(item) ==
    /\ nread' = nread + 1
    /\ last' = item
    /\ reqs' = IF item.kind = "request" THEN Append(reqs, item.id) ELSE reqs
    /\ pings' = IF item.kind = "ping" THEN Append(pings, item.payload) ELSE pings

\* the session goes on: the loop is back at rx.next()
Stay(item, frames) ==
    /\ Read(item)
    /\ sent' = sent \o frames
    /\ UNCHANGED <<task, config, pc, api_base_url, ws_url, txAlive, lastReg,
                   lastOutcome, delay>>

\* `?` returns Err from agent_main: the session is dropped
Fail(item, outcome) ==
    /\ Read(item)
    /\ Leave("failed", outcome)
    /\ UNCHANGED <<task, config, api_base_url, ws_url, sent, lastReg>>

\* TextParses with a fault: an Envelope that is no known task is an error too
TextParsesAsTask(text) ==
    FromStr(text).some /\ EventFrom(FromStr(text).v).variant # "Raw"

\* line 261: serde_json::from_str(&msg)? decides whether the loop goes on
TextParses(text) == FromStr(text).some

\* what is recorded of a text frame
TextItem(text) ==
    IF FromStr(text).some
    THEN Item("request", FromStr(text).v.id, EventFrom(FromStr(text).v).variant, 0)
    ELSE Plain("text_err")

\* lines 259-267
RecvText(text) ==
    /\ CanRead
    /\ IF TextParses(text)
       THEN Stay(TextItem(text), Dispatch(EventFrom(FromStr(text).v)))
       ELSE Fail(TextItem(text), "frame_decode_err")

\* lines 268-272
RecvBinary ==
    /\ CanRead
    /\ Stay(Plain("binary"), <<>>)

\* PingReply with a fault: the pong carries no payload
PingReplyEmpty(msg) == Pong(0)

\* line 274: the frame written for a ping
PingReply(msg) == Pong(msg)

\* lines 273-276: tx.send(Message::Pong(msg)).await?
RecvPing(msg) ==
    /\ CanRead
    /\ IF txAlive
       THEN Stay(Item("ping", 0, "", msg), <<PingReply(msg)>>)
       ELSE Fail(Item("ping", 0, "", msg), "pong_err")

\* RecvPong with a fault: the pong is answered with a pong
RecvPongAnswered ==
    /\ CanRead
    /\ Stay(Plain("pong"), <<Pong(0)>>)

\* lines 277-281
RecvPong ==
    /\ CanRead
    /\ Stay(Plain("pong"), <<>>)

\* lines 282-285: the close frame is logged, the loop reads on
RecvClose ==
    /\ CanRead
    /\ Stay(Plain("close"), <<>>)

\* lines 286-289
RecvFrame ==
    /\ CanRead
    /\ Stay(Plain("frame"), <<>>)

\* lines 292-294: Some(Err(err)) is logged, the loop reads on
RecvErr ==
    /\ CanRead
    /\ Stay(Plain("err"), <<>>)

\* line 254: rx.next() yields None; the while loop and the match arm end and
\* the outer loop (line 205) starts its next round at once
StreamEnd ==
    /\ pc = "session"
    /\ Leave("loop", "stream_end")
    /\ last' = Plain("end")
    /\ UNCHANGED <<task, config, api_base_url, ws_url, sent, nread, reqs, pings, lastReg>>

\* the transport breaks under the open session: writes to tx fail from now on
TxBreaks ==
    /\ pc = "session"
    /\ txAlive
    /\ txAlive' = FALSE
    /\ UNCHANGED <<task, config, pc, api_base_url, ws_url, sent, hist, lastReg,
                   lastOutcome, delay>>

-----------------------------------------------------------------------------

Next ==
    \/ AgentMain
    \/ Restart
    \/ RegisterIdentityErr
    \/ \E res \in RegResults : Register(res)
    \/ SleepNoUrl
    \/ SleepRegisterErr
    \/ \E ok \in BOOLEAN : Connect(ok)
    \/ \E text \in Texts : RecvText(text)
    \/ RecvBinary
    \/ \E msg \in Payloads : RecvPing(msg)
    \/ RecvPong
    \/ RecvClose
    \/ RecvFrame
    \/ RecvErr
    \/ StreamEnd
    \/ TxBreaks

Spec == Init /\ [][Next]_vars

-----------------------------------------------------------------------------
(* The task primitives of utils.rs, as functions of what the system does   *)

\* download_file (utils.rs:26-45): Ok when the GET is answered with a
\* success status, the file is created and every chunk is read and written
download_file(io) ==
    [ok |-> io.send /\ io.success /\ io.file /\ io.body, code |-> 0]

\* upload_file (utils.rs:48-65): Ok when the file opens and the POST is
\* answered with a success status
upload_file(io) ==
    [ok |-> io.file /\ io.send /\ io.success, code |-> 0]

\* execute_shell with a fault: a process killed by a signal counts as exit 0
execute_shell_signal_ok(st) ==
    IF st.how = "exit" THEN [ok |-> TRUE, code |-> st.code]
    ELSE IF st.how = "signal" THEN [ok |-> TRUE, code |-> 0]
    ELSE [ok |-> FALSE, code |-> 0]

\* execute_command (utils.rs:68-84) under execute_shell (utils.rs:87-89):
\* status().await? fails when sh cannot be spawned, code() is None when the
\* process was killed by a signal, else Ok(code)
execute_shell(st) ==
    IF st.how = "exit" THEN [ok |-> TRUE, code |-> st.code]
    ELSE [ok |-> FALSE, code |-> 0]

TransferIo ==
    [send : BOOLEAN, success : BOOLEAN, file : BOOLEAN, body : BOOLEAN]

ExitCodes == {0, 1, 2, 127, 255}

ProcessEnds ==
    { [how |-> "exit", code |-> c] : c \in ExitCodes }
    \cup { [how |-> "spawn_err", code |-> 0], [how |-> "signal", code |-> 0] }

\* the Envelopes given to Event::from: every text that parses
ParsedTexts == { FromStr(t).v : t \in {x \in Texts : FromStr(x).some} }

-----------------------------------------------------------------------------
(* Event::from and handle_message run on their own: the Envelope is        *)
(* classified, the handler calls its primitive, builds the reply and       *)
(* writes it with tx.send(..).await?                                       *)

HInit ==
    /\ config \in Configs
    /\ pc = "main"
    /\ api_base_url = ""
    /\ ws_url = None
    /\ txAlive = FALSE
    /\ sent = <<>>
    /\ nread = 0
    /\ last = NoItem
    /\ reqs = <<>>
    /\ pings = <<>>
    /\ lastReg = None
    /\ lastOutcome = "none"
    /\ delay = 0
    /\ task \in { [pc |-> "parsed", msg |-> m] : m \in ParsedTexts }

HSame ==
    UNCHANGED <<config, pc, api_base_url, ws_url, txAlive, sent, nread, last,
                reqs, pings, lastReg, lastOutcome, delay>>

\* Event::from(event_msg), main.rs:263
Classify ==
    /\ task.pc = "parsed"
    /\ task' = [pc |-> "event", msg |-> task.msg, event |-> EventFrom(task.msg)]
    /\ HSame

\* the handler ran, its primitive met inp and returned res; the write succeeds
\* (wrote) or fails, and handle_message returns Ok(()) or the write's Err
Handled(inp, res, wrote) ==
    /\ task' = [pc |-> "done", msg |-> task.msg, event |-> task.event,
                inp |-> inp, res |-> res,
                written |-> IF wrote
                            THEN <<Text(ToJson(handle_message(task.event, res)))>>
                            ELSE <<>>,
                ok |-> wrote]
    /\ HSame

\* main.rs:128-145
HandleDownload(io, wrote) ==
    /\ task.pc = "event" /\ task.event.variant = "Download"
    /\ Handled(io, download_file(io), wrote)

\* main.rs:146-163
HandleUpload(io, wrote) ==
    /\ task.pc = "event" /\ task.event.variant = "Upload"
    /\ Handled(io, upload_file(io), wrote)

\* main.rs:164-178
HandleExecute(st, wrote) ==
    /\ task.pc = "event" /\ task.event.variant = "Execute"
    /\ Handled(st, execute_shell(st), wrote)

\* main.rs:179-190
HandleRaw(wrote) ==
    /\ task.pc = "event" /\ task.event.variant = "Raw"
    /\ Handled(NoTask, [ok |-> TRUE, code |-> 0], wrote)

HNext ==
    \/ Classify
    \/ \E io \in TransferIo, wrote \in BOOLEAN : HandleDownload(io, wrote)
    \/ \E io \in TransferIo, wrote \in BOOLEAN : HandleUpload(io, wrote)
    \/ \E st \in ProcessEnds, wrote \in BOOLEAN : HandleExecute(st, wrote)
    \/ \E wrote \in BOOLEAN : HandleRaw(wrote)

SpecHandler == HInit /\ [][HNext]_vars

-----------------------------------------------------------------------------
(* Properties *)

\* the reply Envelopes among the frames written, parsed back
Replies == [i \in 1 .. Len(SelectSeq(sent, LAMBDA f : f.type = "text")) |->
              FromStr(SelectSeq(sent, LAMBDA f : f.type = "text")[i].text)]

\* the payloads of the pongs among the frames written
PongPayloads == [i \in 1 .. Len(SelectSeq(sent, LAMBDA f : f.type = "pong")) |->
                   SelectSeq(sent, LAMBDA f : f.type = "pong")[i].payload]

AllButLast(s) == SubSeq(s, 1, Len(s) - 1)

\* the step reads a text frame that parses as an Envelope
ReadsRequest == nread' = nread + 1 /\ last'.kind = "request"

\* the registration response asks for a redirect: data.ws is a string and
\* data.redirect is true
RedirectAsked ==
    /\ lastReg.some /\ lastReg.v.ok
    /\ FromStr(lastReg.v.body).some
    /\ FromStr(lastReg.v.body).v.data.some
    /\ json_str(FromStr(lastReg.v.body).v.data.v, "ws").some
    /\ json_bool(FromStr(lastReg.v.body).v.data.v, "redirect").some
    /\ json_bool(FromStr(lastReg.v.body).v.data.v, "redirect").v

\* the registration exchange failed: a network error, a status outside 2xx,
\* or a body that is no Envelope
RegistrationFailed ==
    /\ lastReg.some
    /\ \/ ~lastReg.v.ok
       \/ lastReg.v.status < 200
       \/ lastReg.v.status > 299
       \/ ~FromStr(lastReg.v.body).some

\* C1: every text frame that parses as an Envelope is answered by exactly one
\* reply Envelope on the session's send half, with the request's id and
\* event "task_completed": the replies written are, in order, one per request.
C1_ExactlyOneReply ==
    pc = "session" =>
        /\ Len(Replies) = Len(reqs)
        /\ \A i \in 1 .. Len(reqs) :
              /\ Replies[i].some
              /\ Replies[i].v.id = reqs[i]
              /\ Replies[i].v.event = "task_completed"

\* C2: a step that reads an Envelope, whatever its event and data, leaves the
\* session active at rx.next() and starts no backoff.
C2_TaskNeverEndsSession ==
    [][ReadsRequest =>
          /\ pc' = "session"
          /\ txAlive' = txAlive
          /\ lastOutcome' = lastOutcome
          /\ delay' = delay]_vars

\* C2 witness: an Envelope the classification rejected (unknown event or bad
\* data) was read, the session is active and a further frame was read on it
C2_Witness ==
    /\ pc = "session"
    /\ Len(reqs) >= 1
    /\ nread >= 2
    /\ last.kind = "request"
    /\ last.variant = "Raw"

\* C3: after a text frame that is no Envelope the session is over: nothing
\* more is read on it, no reply was written for the frame, and the next
\* registration attempt starts after exactly the 60-unit delay.
C3_MalformedFrameEndsSession ==
    last.kind = "text_err" =>
        /\ pc \in {"failed", "main", "loop"}
        /\ ~txAlive
        /\ delay = (IF pc = "failed" THEN 0 ELSE 60)
        /\ Len(Replies) <= Len(reqs)

\* C3 witness: back at the registration loop, 60 units after the bad frame
C3_Witness ==
    last.kind = "text_err" /\ pc = "loop" /\ delay = 60

\* C4: after a network error of the registration request the agent only
\* sleeps 15 units and is then back at the registration loop: no socket, no
\* session, no 60-unit delay.
C4_RegisterErrorShortBackoff ==
    (lastReg.some /\ ~lastReg.v.ok) =>
        /\ pc \in {"sleep_err", "loop"}
        /\ delay = (IF pc = "sleep_err" THEN 0 ELSE 15)
        /\ ~txAlive
        /\ nread = 0
        /\ ~ws_url.some

\* C4 witness: the retry is due, 15 units after the network error
C4_Witness ==
    lastReg.some /\ ~lastReg.v.ok /\ pc = "loop" /\ delay = 15

\* C5: every registration failure (network error, non-2xx status, body that
\* is no Envelope) leads to the 15-unit backoff and a new registration.
C5_RegistrationFailuresAlike ==
    RegistrationFailed =>
        /\ pc \in {"sleep_err", "sleep_nourl", "loop"}
        /\ pc = "loop" => delay = 15

\* C6: after a session was active, the next registration attempt starts only
\* after the 60-unit delay.
C6_SessionEndWaits60 ==
    (pc = "loop" /\ last.kind # "none") => delay = 60

\* C7: once a close frame was read the session is left.
C7_CloseEndsSession ==
    last.kind = "close" => pc # "session"

\* C8: an Envelope read while the send half cannot be written ends the
\* session: the reply's write failure is a session error.
C8_ReplyWriteFailureEndsSession ==
    [][(ReadsRequest /\ ~txAlive) => pc' = "failed"]_vars

\* C9: the pongs written are, in order, one per ping with the ping's payload,
\* no reply Envelope is written for a ping, and a ping whose pong cannot be
\* written ends the session with the 60-unit delay.
C9_PingPong ==
    /\ Len(Replies) <= Len(reqs)
    /\ Len(sent) = Len(Replies) + Len(PongPayloads)
    /\ IF pc # "session" /\ last.kind = "ping"
       THEN /\ PongPayloads = AllButLast(pings)
            /\ pc \in {"failed", "main", "loop"}
            /\ delay = (IF pc = "failed" THEN 0 ELSE 60)
       ELSE PongPayloads = pings

\* C9 witness: two pings with different payloads were answered
C9_Witness ==
    /\ pc = "session"
    /\ Len(pings) >= 2
    /\ pings[1] # pings[2]
    /\ last.kind = "ping"
    /\ sent[Len(sent)] = Pong(last.payload)

\* C10: when data.ws is a string and data.redirect is true, the socket URL is
\* data.ws itself.
C10_RedirectVerbatim ==
    (pc = "connect" /\ RedirectAsked) =>
        ws_url = json_str(FromStr(lastReg.v.body).v.data.v, "ws")

-----------------------------------------------------------------------------
(* Socket URL of a parsed registration response *)

\* the registration response parsed as an Envelope
RegParsed == lastReg.some /\ lastReg.v.ok /\ FromStr(lastReg.v.body).some

\* the data of the parsed registration response, an Option
RegDataOpt == FromStr(lastReg.v.body).v.data

\* the parsed response has a string data.ws
HasWs == RegParsed /\ RegDataOpt.some /\ json_str(RegDataOpt.v, "ws").some

\* {wsScheme}://{addr}:{port}/ of the configuration
WsBase ==
    (IF config.https THEN "wss" ELSE "ws") \o "://" \o config.addr \o ":"
        \o ToString(config.port) \o "/"

\* C11: when data.ws is a string and data.redirect is absent or false, the
\* socket URL is {wsScheme}://{addr}:{port}/{data.ws}.
C11_WsPathComposed ==
    (/\ pc = "connect"
     /\ HasWs
     /\ \/ "redirect" \notin DOMAIN RegDataOpt.v
        \/ RegDataOpt.v["redirect"] = JBool(FALSE))
    => ws_url = Some(WsBase \o json_str(RegDataOpt.v, "ws").v)

\* C12 as claimed: every parsed response without a string data.ws, also one
\* whose data is null or absent, gets the default URL and goes on to connect.
C12_DefaultUrlAlways ==
    (RegParsed /\ ~HasWs) =>
        /\ pc = "connect"
        /\ ws_url = Some(WsBase \o config.api_base_path \o "/ws")

\* C12 amended: a parsed response whose data is a map without a string ws gets
\* the default URL {wsScheme}://{addr}:{port}/{api_base_path}/ws and goes on
\* to connect; a parsed response whose data is null or absent gets no URL:
\* the agent sleeps 15 units and registers again.
C12_DefaultUrl ==
    (RegParsed /\ ~HasWs) =>
        IF RegDataOpt.some
        THEN /\ pc = "connect"
             /\ ws_url = Some(WsBase \o config.api_base_path \o "/ws")
        ELSE /\ pc \in {"sleep_nourl", "loop"}
             /\ ws_url = None
             /\ delay = (IF pc = "loop" THEN 15 ELSE 0)
             /\ ~txAlive

\* C12 witness: data.ws is there but no string, the default URL is used
C12_Witness ==
    /\ pc = "connect"
    /\ RegParsed /\ RegDataOpt.some
    /\ "ws" \in DOMAIN RegDataOpt.v
    /\ ~HasWs
    /\ ws_url.some

-----------------------------------------------------------------------------
(* Replies of the handlers *)

\* the handler ran and its reply was written
Replied == task.pc = "done" /\ task.ok

\* the reply Envelope as the controller reads it
TheReply == FromStr(task.written[1].text)

C14_WitnessExit ==
    /\ Replied /\ task.event.variant = "Execute"
    /\ task.inp.how = "exit"
    /\ TheReply.v.code = 255

-----------------------------------------------------------------------------
(* config.rs: impl From<Args> for Config.  A config file is "missing",      *)
(* "empty", "garbage" (no TOML) or "toml" with a table m of keys to values. *)

\* Config::default, config.rs:83-90
ConfigDefault ==
    [addr |-> "controller", port |-> 1091, https |-> FALSE,
     api_base_path |-> "api/v1"]

\* Config::load_toml, config.rs:71-81: File::open and read_to_string must
\* succeed with at least one byte, and toml::from_str must find all four
\* fields of Config with their types (port a u16)
load_toml(file) ==
    IF file.t # "toml" THEN None
    ELSE LET m == file.m IN
         IF /\ {"addr", "port", "https", "api_base_path"} \subseteq DOMAIN m
            /\ m["addr"].t = "str"
            /\ m["port"].t = "num" /\ m["port"].n >= 0 /\ m["port"].n <= 65535
            /\ m["https"].t = "bool"
            /\ m["api_base_path"].t = "str"
         THEN Some([addr |-> m["addr"].s, port |-> m["port"].n,
                    https |-> m["https"].b,
                    api_base_path |-> m["api_base_path"].s])
         ELSE None

\* Option::unwrap_or
unwrap_or(opt, default) == IF opt.some THEN opt.v ELSE default

\* ConfigFrom with a fault: the file's value wins over the command line's
ConfigFromFileFirst(args, file) ==
    LET conf == IF args.config.some /\ load_toml(file).some
                THEN load_toml(file).v ELSE ConfigDefault
        loaded == args.config.some /\ load_toml(file).some
    IN [addr |-> IF loaded THEN conf.addr ELSE unwrap_or(args.addr, conf.addr),
        port |-> IF loaded THEN conf.port ELSE unwrap_or(args.port, conf.port),
        https |-> IF loaded THEN conf.https ELSE unwrap_or(args.https, conf.https),
        api_base_path |-> IF loaded THEN conf.api_base_path
                          ELSE unwrap_or(args.api_base_path, conf.api_base_path)]

\* Config::from(args), config.rs:47-68; file is what args.config names
ConfigFrom(args, file) ==
    LET conf == IF args.config.some
                THEN IF load_toml(file).some THEN load_toml(file).v
                     ELSE ConfigDefault
                ELSE ConfigDefault
    IN [addr |-> unwrap_or(args.addr, conf.addr),
        port |-> unwrap_or(args.port, conf.port),
        https |-> unwrap_or(args.https, conf.https),
        api_base_path |-> unwrap_or(args.api_base_path, conf.api_base_path)]

\* command lines
ArgsSet ==
    [config : {None, Some("/etc/metalx.toml")},
     addr : {None, Some("10.0.0.7")},
     port : {None, Some(8443)},
     https : {None, Some(TRUE), Some(FALSE)},
     api_base_path : {None, Some("metalx/api")}]

\* config files
Files ==
    { [t |-> "missing"], [t |-> "empty"], [t |-> "garbage"],
      [t |-> "toml", m |-> [addr |-> JStr("ctl.lan"), port |-> JNum(443),
                            https |-> JBool(TRUE), api_base_path |-> JStr("v2")]],
      [t |-> "toml", m |-> [addr |-> JStr("ctl.lan")]],
      [t |-> "toml", m |-> [addr |-> JStr("ctl.lan"), port |-> JNum(70000),
                            https |-> JBool(TRUE), api_base_path |-> JStr("v2")]],
      [t |-> "toml", m |-> [addr |-> JStr("ctl.lan"), port |-> JStr("443"),
                            https |-> JBool(FALSE), api_base_path |-> JStr("v2")]] }

-----------------------------------------------------------------------------
(* main from the command line on, lines 329-338, with a controller that    *)
(* cannot be reached and an identity that may be unreadable: the connect   *)
(* attempts of one process, each given config.clone()                      *)

CInit ==
    /\ config = None
    /\ pc = "args"
    /\ api_base_url = ""
    /\ ws_url = None
    /\ txAlive = FALSE
    /\ sent = <<>>
    /\ nread = 0
    /\ last = NoItem
    /\ reqs = <<>>
    /\ pings = <<>>
    /\ lastReg = None
    /\ lastOutcome = "none"
    /\ delay = 0
    /\ task \in { [pc |-> "args", args |-> a, file |-> f] :
                    a \in ArgsSet, f \in Files }

\* lines 329-330: Args::parse() and Config::from(args)
Resolve ==
    /\ pc = "args"
    /\ config' = ConfigFrom(task.args, task.file)
    /\ pc' = "main"
    /\ UNCHANGED <<task, api_base_url, ws_url, txAlive, sent, hist, lastReg,
                   lastOutcome, delay>>

CNext ==
    \/ Resolve
    \/ AgentMain
    \/ Restart
    \/ RegisterIdentityErr
    \/ Register([ok |-> FALSE])
    \/ SleepRegisterErr

SpecConfig == CInit /\ [][CNext]_vars

\* the value a field resolves to: the command line's, else the loaded
\* file's, else the built-in default
Resolved(arg, fileLoaded, fileValue, default) ==
    IF arg.some THEN arg.v ELSE IF fileLoaded THEN fileValue ELSE default

\* the named file exists and holds all four fields with their types
FileLoaded ==
    /\ task.args.config.some
    /\ task.file.t = "toml"
    /\ {"addr", "port", "https", "api_base_path"} \subseteq DOMAIN task.file.m
    /\ task.file.m["addr"].t = "str"
    /\ task.file.m["port"].t = "num"
    /\ task.file.m["port"].n \in 0 .. 65535
    /\ task.file.m["https"].t = "bool"
    /\ task.file.m["api_base_path"].t = "str"

\* C16: each field of the resolved Config is the command line's value, else
\* the value of a config file that loads, else the default ("controller",
\* 1091, false, "api/v1"); a file that is not named, missing, empty or
\* unparsable gives the defaults under the command line's values; and every
\* connect attempt of the process works with that same Config.
C16_ConfigResolution ==
    pc # "args" =>
        /\ config.addr =
              Resolved(task.args.addr, FileLoaded,
                       IF FileLoaded THEN task.file.m["addr"].s ELSE "", "controller")
        /\ config.port =
              Resolved(task.args.port, FileLoaded,
                       IF FileLoaded THEN task.file.m["port"].n ELSE 0, 1091)
        /\ config.https =
              Resolved(task.args.https, FileLoaded,
                       IF FileLoaded THEN task.file.m["https"].b ELSE FALSE, FALSE)
        /\ config.api_base_path =
              Resolved(task.args.api_base_path, FileLoaded,
                       IF FileLoaded THEN task.file.m["api_base_path"].s ELSE "",
                       "api/v1")
        /\ pc # "main" =>
              api_base_url =
                  (IF config.https THEN "https" ELSE "http") \o "://"
                      \o config.addr \o ":" \o ToString(config.port) \o "/"
                      \o config.api_base_path

\* C16 witness: a second connect attempt of a process whose file loads and
\* whose command line overrides the port only
C16_Witness ==
    /\ pc = "loop"
    /\ lastOutcome # "none"
    /\ FileLoaded
    /\ task.args.port.some
    /\ ~task.args.addr.some
    /\ config.addr = "ctl.lan"
    /\ config.port = 8443

-----------------------------------------------------------------------------
(* Classification *)

\* the Envelope's data is present and holds a string under key
HasString(msg, key) ==
    /\ msg.data.some
    /\ key \in DOMAIN msg.data.v
    /\ msg.data.v[key].t = "str"

\* C18: an Envelope is classified as Download/Upload exactly when its event is
\* download/upload and data.url and data.path are strings, as Execute exactly
\* when its event is execute and data.cmd is a string, and as the
\* unrecognized variant otherwise; the variant carries the Envelope's id and
\* the fields' values, and every parsed Envelope is classified.
C18_ClassificationExact ==
    /\ task.pc = "parsed" => ENABLED Classify
    /\ task.pc \in {"event", "done"} =>
         LET m == task.msg
             e == task.event
             transfer == HasString(m, "url") /\ HasString(m, "path")
         IN  /\ e.id = m.id
             /\ e.variant \in {"Download", "Upload", "Execute", "Raw"}
             /\ e.variant = "Download" <=> (m.event = "download" /\ transfer)
             /\ e.variant = "Upload" <=> (m.event = "upload" /\ transfer)
             /\ e.variant = "Execute" <=>
                    (m.event = "execute" /\ HasString(m, "cmd"))
             /\ e.variant \in {"Download", "Upload"} =>
                    e.url = m.data.v["url"].s /\ e.path = m.data.v["path"].s
             /\ e.variant = "Execute" => e.cmd = m.data.v["cmd"].s

\* C18 witness: a download whose path is missing was classified as unrecognized
C18_Witness ==
    /\ task.pc = "event"
    /\ task.msg.event = "download"
    /\ HasString(task.msg, "url")
    /\ ~HasString(task.msg, "path")
    /\ task.event.variant = "Raw"

-----------------------------------------------------------------------------
(* Failures outside the registration request *)

\* the attempt ended because the machine identity could not be read or the
\* socket did not open
AttemptAborted == lastOutcome \in {"identity_err", "connect_err"}

\* C19: after an unreadable identity or a failed socket open agent_main has
\* returned its error: no socket and no session exist, main waits 60 units
\* (never the 15 of a failed registration) and the cycle starts again at the
\* registration loop.
C19_AbortWaits60 ==
    AttemptAborted =>
        /\ pc \in {"failed", "main", "loop"}
        /\ delay = (IF pc = "failed" THEN 0 ELSE RestartDelay)
        /\ delay # RegisterErrDelay
        /\ ~txAlive
        /\ ~ws_url.some

\* C19 witness: back at the registration loop, 60 units after the socket
\* failed to open
C19_Witness ==
    lastOutcome = "connect_err" /\ pc = "loop" /\ delay = 60

-----------------------------------------------------------------------------
(* Frames that are ignored *)

\* this step reads a pong, a binary frame or a raw frame from the session
ReadsIgnored ==
    /\ pc = "session"
    /\ nread' = nread + 1
    /\ last'.kind \in {"pong", "binary", "frame"}

\* C20: reading a pong, a binary frame or a raw frame leaves the session
\* open and changes nothing else: no frame is written, no request is taken up,
\* the send half is as before; and the loop can read its next frame.
C20_IgnoredFrames ==
    /\ [][ReadsIgnored =>
            /\ pc' = "session"
            /\ sent' = sent
            /\ reqs' = reqs
            /\ pings' = pings
            /\ txAlive' = txAlive
            /\ task' = task
            /\ lastOutcome' = lastOutcome]_vars
    /\ []((pc = "session" /\ last.kind \in {"pong", "binary", "frame"}
              /\ nread < MaxFrames) => ENABLED RecvClose)

\* C20 witness: a pong was read as the second frame of a session that is
\* still open and has written nothing
C20_Witness ==
    /\ pc = "session"
    /\ last.kind = "pong"
    /\ nread = 2
    /\ sent = <<>>

-----------------------------------------------------------------------------
(* Handlers beside the read loop *)

\* a request was read and has no reply yet: its handler, if any, is not done
HandlerPending == Len(Replies) < Len(reqs)

\* with a request pending the read loop goes on: a ping is answered with its
\* pong and a further Envelope is read without leaving the session
ReadLoopGoesOn ==
    [][(HandlerPending /\ pc = "session" /\ nread' = nread + 1) =>
          /\ (last'.kind = "ping" /\ txAlive) =>
                 sent' = Append(sent, Pong(last'.payload)) /\ pc' = "session"
          /\ last'.kind = "request" =>
                 reqs' = Append(reqs, last'.id) /\ pc' = "session"]_vars

\* every frame written is one whole pong or one whole reply
WritesWhole ==
    \A i \in 1 .. Len(sent) :
        \/ sent[i].type = "pong"
        \/ sent[i].type = "text" /\ FromStr(sent[i].text).some

\* C21: handlers run beside the read loop: an Envelope read has its handler
\* running from then on; while a handler has not replied, pings are answered
\* and further Envelopes are read; each frame written is whole.
C21_HandlersBesideReadLoop ==
    /\ [][ReadsRequest => last'.id \in Spawned({reqs'[i] : i \in DOMAIN reqs'})]_vars
    /\ ReadLoopGoesOn
    /\ []WritesWhole

-----------------------------------------------------------------------------
(* Progress.  The runtime resumes a task whose await is ready: a sleep      *)
(* ends, and agent_main is called again by main's loop.  Nothing is assumed *)
(* of the controller: a session may wait for its next frame for ever.       *)

Fairness ==
    /\ WF_vars(AgentMain)
    /\ WF_vars(Restart)
    /\ WF_vars(SleepNoUrl)
    /\ WF_vars(SleepRegisterErr)

SpecLive == Init /\ [][Next]_vars /\ Fairness

\* the attempt failed or the session is over, and the next attempt is not
\* yet begun
BetweenAttempts == pc \in {"failed", "main", "sleep_err", "sleep_nourl"}

\* the session has read a close frame or a read error and is still open
SessionOverForPeer == pc = "session" /\ last.kind \in {"close", "err"}

\* C17: whenever an attempt failed (registration error, no URL, unreadable
\* identity, failed socket open) or a session met a close frame, a read error
\* or a malformed frame, the agent comes back to the head of the registration
\* loop; no step ends the process.
C17_AlwaysRetries ==
    /\ (BetweenAttempts \/ SessionOverForPeer) ~> (pc = "loop")
    /\ [](pc \in {"main", "loop", "sleep_err", "sleep_nourl", "connect",
                  "session", "failed"})

\* what the code does give: once agent_main has left the session or failed
\* before it, the registration loop is entered again
RetriesOnceOutOfSession == BetweenAttempts ~> (pc = "loop")

====
